---- MODULE Spec2Model ----
(***************************************************************************)
(* kucoin_btc_feed.py: one run of main() -- fetch_indicators(), reshape()  *)
(* and push_gist() -- with reshape() and _ingest_bar() computed as the     *)
(* code computes them on the decoded TAAPI response.                       *)
(*                                                                         *)
(* Python values.  Every value of the decoded response is a record tagged  *)
(* with its Python type in field py: None, an int (n), a float (its repr   *)
(* in s), a str, a list (items) or a dict (d).  A dict is a function whose *)
(* DOMAIN is the set of its keys.                                          *)
(***************************************************************************)
EXTENDS Integers, Sequences, FiniteSets, TLC

VARIABLES response, LIMIT, pc, data, idx, bars, payload, err, gist, trace

vars == <<response, LIMIT, pc, data, idx, bars, payload, err, gist, trace>>

\* ------------------------------------------------------------------------
\* Python values
\* ------------------------------------------------------------------------
EmptyDict == [k \in {} |-> 0]

Val(py, n, s, items, d) == [py |-> py, n |-> n, s |-> s, items |-> items, d |-> d]

None == Val("None", 0, "", <<>>, EmptyDict)
PyInt(n) == Val("int", n, "", <<>>, EmptyDict)
\* the string whose digits spell n
DigitStr(n) == Val("str", n, "digits", <<>>, EmptyDict)
PyStr(s) == Val("str", 0, s, <<>>, EmptyDict)
\* a float, by its repr: "10", "0", "nan", "inf"
Num(s) == Val("float", 0, s, <<>>, EmptyDict)
PyList(l) == Val("list", 0, "", l, EmptyDict)
PyDict(d) == Val("dict", 0, "", <<>>, d)

NaN == Num("nan")
Inf == Num("inf")

\* bool(x): None, 0, the empty list and the empty dict are false
Truthy(x) ==
    CASE x.py = "None" -> FALSE
      [] x.py = "int" -> x.n # 0
      [] x.py = "float" -> x.s # "0"
      [] x.py = "list" -> x.items # <<>>
      [] x.py = "dict" -> DOMAIN x.d # {}
      [] OTHER -> TRUE

\* a or b
PyOr(a, b) == IF Truthy(a) THEN a ELSE b

\* d.get(k)
Get(d, k) == IF k \in DOMAIN d THEN d[k] ELSE None

\* d[k] = v written where d.setdefault(k, v) stands
SetDefaultOverwrites(d, k, v) == (k :> v) @@ d

\* d.setdefault(k, v); the dict after the call
SetDefault(d, k, v) == IF k \in DOMAIN d THEN d ELSE (k :> v) @@ d

\* d[k] = v; the dict after the assignment
SetItem(d, k, v) == (k :> v) @@ d

\* int(x) of an int or of a digit string; int(None) raises TypeError
CanInt(x) == x.py \in {"int", "str"}
ToInt(x) == x.n

\* ------------------------------------------------------------------------
\* Configuration
\* ------------------------------------------------------------------------
PAIR == "BTC/USDT"
TF == "15m"
\* PAIR.replace("/", "")
Symbol == "BTCUSDT"

\* the ids fetch_indicators() asks for, in request order
IndicatorIds == <<"ema20", "ema50", "ema200", "rsi14", "atr14", "vwap">>

OhlcvKeys == <<"open", "close", "high", "low", "volume">>

\* ------------------------------------------------------------------------
\* _ingest_bar
\* ------------------------------------------------------------------------
RECURSIVE MergeOhlcv(_, _, _)
MergeOhlcv(cell, ohlcv, i) ==
    IF i > Len(OhlcvKeys) THEN cell
    ELSE LET k == OhlcvKeys[i]
             v == Get(ohlcv, k)
         IN MergeOhlcv(IF v # None THEN SetDefault(cell, k, v) ELSE cell, ohlcv, i + 1)

\* bars[ts] = {} written where bars.setdefault(ts, {}) stands
IngestBarNewCell(b, ts, indicator_id, value, ohlcv) ==
    (ts :> MergeOhlcv(SetItem(EmptyDict, indicator_id, value), ohlcv, 1)) @@ b

_ingest_bar(b, ts, indicator_id, value, ohlcv) ==
    LET cell0 == IF ts \in DOMAIN b THEN b[ts] ELSE EmptyDict
        cell1 == SetItem(cell0, indicator_id, value)
    IN (ts :> MergeOhlcv(cell1, ohlcv, 1)) @@ b

\* ------------------------------------------------------------------------
\* reshape
\* ------------------------------------------------------------------------
NoError == "none"

\* the state of reshape()'s loop: the exception raised, if any, and bars
Step(e, b) == [err |-> e, bars |-> b]

\* the arguments of one _ingest_bar call
Args(ts, indicator_id, value, ohlcv) ==
    [ts |-> ts, indicator_id |-> indicator_id, value |-> value, ohlcv |-> ohlcv]

\* the _ingest_bar calls made so far by a loop, and the exception that ended it
Calls(e, cs) == [err |-> e, calls |-> cs]

\* Style 1, list[dict]: the calls made for the records of res_obj from index i on
RECURSIVE ListCalls(_, _, _, _)
ListCalls(indicator_id, recs, i, done) ==
    IF i > Len(recs) THEN Calls(NoError, done)
    ELSE LET res == recs[i].d
             ts_raw == PyOr(Get(res, "timestamp"), Get(res, "timestampMs"))
         IN IF ts_raw.py = "None" THEN ListCalls(indicator_id, recs, i + 1, done)
            ELSE IF ~CanInt(ts_raw) THEN Calls("TypeError", done)
            ELSE IF "value" \notin DOMAIN res THEN Calls("KeyError", done)
            ELSE ListCalls(indicator_id, recs, i + 1,
                           Append(done, Args(ToInt(ts_raw), indicator_id, res["value"], res)))

\* res_obj.get("timestamp") or res_obj.get("timestampMs")
TsField(d) == PyOr(Get(d, "timestamp"), Get(d, "timestampMs"))

\* arr[idx] if arr else None, for an array that can be indexed at idx
ArrAt(arr, i) == IF Truthy(arr) THEN arr.items[i] ELSE None

\* arr[idx] raises IndexError
ArrShort(arr, i) == Truthy(arr) /\ i > Len(arr.items)

\* Style 2, dict with arrays: the calls made for the entries of ts_arr from index i on
RECURSIVE VectorCalls(_, _, _, _)
VectorCalls(indicator_id, d, i, done) ==
    LET ts_arr == TsField(d).items
        val_arr == d["value"]
        open_arr == Get(d, "open")
        close_arr == Get(d, "close")
        high_arr == Get(d, "high")
        low_arr == Get(d, "low")
        vol_arr == Get(d, "volume")
    IN IF i > Len(ts_arr) THEN Calls(NoError, done)
       ELSE IF \E arr \in {open_arr, close_arr, high_arr, low_arr, vol_arr} : ArrShort(arr, i)
            THEN Calls("IndexError", done)
       ELSE IF ~CanInt(ts_arr[i]) THEN Calls("TypeError", done)
       ELSE IF val_arr.py # "list" THEN Calls("TypeError", done)
       ELSE IF i > Len(val_arr.items) THEN Calls("IndexError", done)
       ELSE LET ohlcv == [open |-> ArrAt(open_arr, i), close |-> ArrAt(close_arr, i),
                          high |-> ArrAt(high_arr, i), low |-> ArrAt(low_arr, i),
                          volume |-> ArrAt(vol_arr, i)]
            IN VectorCalls(indicator_id, d, i + 1,
                           Append(done, Args(ToInt(ts_arr[i]), indicator_id,
                                             val_arr.items[i], ohlcv)))

\* the calls one iteration of "for item in data" makes
ItemCalls(item) ==
    LET indicator_id == item.id
        res_obj == item.result
    IN IF res_obj.py = "list" THEN ListCalls(indicator_id, res_obj.items, 1, <<>>)
       ELSE IF res_obj.py = "dict" /\ TsField(res_obj.d).py = "list"
            THEN IF "value" \notin DOMAIN res_obj.d THEN Calls("KeyError", <<>>)
                 ELSE VectorCalls(indicator_id, res_obj.d, 1, <<>>)
       ELSE Calls(NoError, <<>>)

\* bars after the calls cs, made in order from call i on
RECURSIVE IngestAll(_, _, _)
IngestAll(b, cs, i) ==
    IF i > Len(cs) THEN b
    ELSE IngestAll(_ingest_bar(b, cs[i].ts, cs[i].indicator_id, cs[i].value, cs[i].ohlcv),
                   cs, i + 1)

\* one iteration of "for item in data"
IngestItem(b, item) ==
    LET c == ItemCalls(item)
    IN Step(c.err, IngestAll(b, c.calls, 1))

\* sorted(..., reverse=True) written where sorted(...) stands
RECURSIVE SortedKeysReversed(_)
SortedKeysReversed(S) ==
    IF S = {} THEN <<>>
    ELSE LET m == CHOOSE x \in S : \A y \in S : x >= y
         IN <<m>> \o SortedKeysReversed(S \ {m})

\* sorted(bars.items()): the timestamps in increasing order
RECURSIVE SortedKeys(_)
SortedKeys(S) ==
    IF S = {} THEN <<>>
    ELSE LET m == CHOOSE x \in S : \A y \in S : x <= y
         IN <<m>> \o SortedKeys(S \ {m})

\* seq[start:] as Python slices: a negative start counts from the end
SliceFrom(seq, start) ==
    LET n == Len(seq)
        from == IF start < 0 THEN (IF n + start < 0 THEN 0 ELSE n + start)
                ELSE (IF start > n THEN n ELSE start)
    IN SubSeq(seq, from + 1, n)

\* [{"ts": t, **vals} for t, vals in sorted(bars.items())[-LIMIT:]]
Ordered(b, limit) ==
    LET keys == SliceFrom(SortedKeys(DOMAIN b), 0 - limit)
    IN [i \in 1..Len(keys) |-> b[keys[i]] @@ ("ts" :> PyInt(keys[i]))]

\* iso(ms): the UTC second the milliseconds fall in, printed with a "Z"
iso(ms) == Val("str", ms \div 1000, "utc-second Z", <<>>, EmptyDict)

\* last[k] under "if k in last" written where last.get(k) stands
SnapshotOmitsMissing(ordered) ==
    LET last == ordered[Len(ordered)]
        flat == [price |-> "close", high |-> "high", low |-> "low", vol |-> "volume",
                 ema20 |-> "ema20", ema50 |-> "ema50", ema200 |-> "ema200",
                 rsi14 |-> "rsi14", vwap |-> "vwap", atr14 |-> "atr14"]
    IN [k \in {x \in DOMAIN flat : flat[x] \in DOMAIN last} |-> last[flat[k]]]
       @@ [timestamp |-> last["ts"],
           datetime_utc |-> iso(last["ts"].n),
           symbol |-> PyStr(Symbol),
           granularity |-> PyStr(TF),
           last_candles |-> PyList([i \in 1..Len(ordered) |-> PyDict(ordered[i])]),
           funding_rate |-> None,
           open_interest |-> None,
           order_book |-> None]

\* the dict reshape() returns (generated_at, the wall clock, is left out)
Snapshot(ordered) ==
    LET last == ordered[Len(ordered)]
    IN [timestamp |-> last["ts"],
        datetime_utc |-> iso(last["ts"].n),
        symbol |-> PyStr(Symbol),
        granularity |-> PyStr(TF),
        price |-> Get(last, "close"),
        high |-> Get(last, "high"),
        low |-> Get(last, "low"),
        vol |-> Get(last, "volume"),
        ema20 |-> Get(last, "ema20"),
        ema50 |-> Get(last, "ema50"),
        ema200 |-> Get(last, "ema200"),
        rsi14 |-> Get(last, "rsi14"),
        vwap |-> Get(last, "vwap"),
        atr14 |-> Get(last, "atr14"),
        last_candles |-> PyList([i \in 1..Len(ordered) |-> PyDict(ordered[i])]),
        funding_rate |-> None,
        open_interest |-> None,
        order_book |-> None]

NoPayload == EmptyDict

\* the "if not bars: raise" left out: an empty snapshot is returned
FinishWithoutCheck(b, limit) ==
    IF DOMAIN b = {}
    THEN [err |-> NoError,
          payload |-> [timestamp |-> None, last_candles |-> PyList(<<>>)]]
    ELSE [err |-> NoError, payload |-> Snapshot(Ordered(b, limit))]

\* the statements after the loop: raise on no bars, else build the snapshot
Finish(b, limit) ==
    IF DOMAIN b = {} THEN [err |-> "RuntimeError", payload |-> NoPayload]
    ELSE [err |-> NoError, payload |-> Snapshot(Ordered(b, limit))]

NoBars == [t \in {} |-> EmptyDict]

\* the loop of reshape() over data from item i on
RECURSIVE Loop(_, _, _)
Loop(b, d, i) ==
    IF i > Len(d) THEN Step(NoError, b)
    ELSE LET s == IngestItem(b, d[i])
         IN IF s.err # NoError THEN s ELSE Loop(s.bars, d, i + 1)

\* reshape(data) as a whole: the exception or the returned dict
reshape(d, limit) ==
    LET s == Loop(NoBars, d, 1)
    IN IF s.err # NoError THEN [err |-> s.err, payload |-> NoPayload]
       ELSE Finish(s.bars, limit)

\* ------------------------------------------------------------------------
\* push_gist
\* ------------------------------------------------------------------------
\* json.dumps(x), allow_nan left at its default: the JSON value written
RECURSIVE json_dumps(_)
json_dumps(x) ==
    CASE x.py = "None" -> Val("null", 0, "", <<>>, EmptyDict)
      [] x.py = "float" /\ x.s = "nan" -> Val("NaN", 0, "", <<>>, EmptyDict)
      [] x.py = "float" /\ x.s = "inf" -> Val("Infinity", 0, "", <<>>, EmptyDict)
      [] x.py = "float" -> Val("number", 0, x.s, <<>>, EmptyDict)
      [] x.py = "int" -> Val("number", x.n, "", <<>>, EmptyDict)
      [] x.py = "list" ->
            Val("array", 0, "", [i \in 1..Len(x.items) |-> json_dumps(x.items[i])], EmptyDict)
      [] x.py = "dict" ->
            Val("object", 0, "", <<>>, [k \in DOMAIN x.d |-> json_dumps(x.d[k])])
      [] OTHER -> Val("string", x.n, x.s, <<>>, EmptyDict)

\* the document the gist holds before the run
PriorDoc == Val("object", 0, "", <<>>, [prior |-> Val("string", 0, "prior", <<>>, EmptyDict)])

\* ------------------------------------------------------------------------
\* The responses TAAPI is taken to send
\* ------------------------------------------------------------------------
\* LIMIT is drawn from 0..MaxLimit: small enough to cut the few bars of a response
MaxLimit == 2
\* the longest response built from CoreItems
MaxItems == 2
\* the most records of one result
MaxRecs == 3

UsedIds == {"ema20", "ema50"}

Values == {Num("10"), NaN}

OhlcvChoices ==
    {EmptyDict,
     [close |-> Num("100")],
     [close |-> Num("200"), high |-> Inf, volume |-> Num("0")]}

\* one contribution: a timestamp, a value, the OHLCV fields that come with it
Contribs == [ts : {PyInt(0), PyInt(1)}, value : Values, ohlcv : OhlcvChoices]

PlainContribs ==
    {[ts |-> PyInt(0), value |-> Num("10"), ohlcv |-> EmptyDict],
     [ts |-> PyInt(1), value |-> Num("10"), ohlcv |-> EmptyDict],
     [ts |-> PyInt(1), value |-> Num("10"), ohlcv |-> [close |-> Num("100")]],
     [ts |-> PyInt(2), value |-> Num("10"), ohlcv |-> [close |-> Num("100")]]}

\* the record of a list-shaped result that carries contribution c
ListRec(c) == PyDict([timestamp |-> c.ts, value |-> c.value] @@ c.ohlcv)

\* the array of OHLCV field k over the contributions cs; no array when none has k
Column(cs, k) == [i \in 1..Len(cs) |-> Get(cs[i].ohlcv, k)]

VectorDict(cs) ==
    LET present == {k \in {"open", "close", "high", "low", "volume"} :
                        \E i \in 1..Len(cs) : k \in DOMAIN cs[i].ohlcv}
    IN [timestamp |-> PyList([i \in 1..Len(cs) |-> cs[i].ts]),
        value |-> PyList([i \in 1..Len(cs) |-> cs[i].value])]
       @@ [k \in present |-> PyList(Column(cs, k))]

ListItem(id, cs) == [id |-> id, result |-> PyList([i \in 1..Len(cs) |-> ListRec(cs[i])])]
VectorItem(id, cs) == [id |-> id, result |-> PyDict(VectorDict(cs))]

SeqsOf(S, lo, hi) == UNION {[1..n -> S] : n \in lo..hi}

\* items with one well-formed contribution, in either shape
SingleItems ==
    {ListItem(id, <<c>>) : id \in UsedIds, c \in Contribs}
    \cup {VectorItem(id, <<c>>) : id \in UsedIds, c \in Contribs}

\* items with several contributions, in either shape
MultiItems ==
    {ListItem("ema20", cs) : cs \in SeqsOf(PlainContribs, 2, MaxRecs)}
    \cup {VectorItem("ema20", cs) : cs \in SeqsOf(PlainContribs, 2, MaxRecs)}

\* items with two contributions, in either shape
TwoRecordItems ==
    {ListItem("ema20", cs) : cs \in SeqsOf(PlainContribs, 2, 2)}
    \cup {VectorItem("ema20", cs) : cs \in SeqsOf(PlainContribs, 2, 2)}

\* results that are not what reshape() expects
OddResults ==
    {None,
     PyList(<<>>),
     PyList(<<PyDict([value |-> Num("10")])>>),
     PyList(<<PyDict([timestamp |-> PyInt(1)])>>),
     PyList(<<PyDict([timestampMs |-> PyInt(2), value |-> Num("10")])>>),
     PyList(<<PyDict([timestamp |-> PyInt(0), timestampMs |-> PyInt(0),
                      value |-> Num("10")])>>),
     PyList(<<PyDict([timestamp |-> DigitStr(1), value |-> NaN, close |-> None])>>),
     PyList(<<PyDict([timestamp |-> PyInt(1), value |-> Num("10")]),
              PyDict([timestamp |-> PyInt(2)])>>),
     PyDict([timestamp |-> PyInt(1), value |-> Num("10")]),
     PyDict([value |-> PyList(<<Num("10")>>)]),
     PyDict([timestamp |-> PyList(<<>>), value |-> PyList(<<>>)]),
     PyDict([timestamp |-> PyList(<<PyInt(1)>>)]),
     PyDict([timestamp |-> PyList(<<PyInt(1), PyInt(2)>>), value |-> PyList(<<Num("10")>>)]),
     PyDict([timestampMs |-> PyList(<<PyInt(1), PyInt(2)>>),
             value |-> PyList(<<Num("10"), Num("10")>>),
             close |-> PyList(<<Num("100")>>)]),
     PyDict([timestamp |-> PyList(<<PyInt(1)>>), value |-> PyList(<<Num("10")>>),
             open |-> PyList(<<>>)])}

OddItems == {[id |-> "ema20", result |-> r] : r \in OddResults}

\* a few well-formed and malformed items, for the longer responses
CoreItems ==
    {ListItem(id, <<c>>) : id \in UsedIds,
                           c \in [ts : {PyInt(1), PyInt(2)}, value : {Num("10")},
                                  ohlcv : {EmptyDict, [close |-> Num("100")]}]}
    \cup {VectorItem("ema50", <<c>>) :
              c \in [ts : {PyInt(0), PyInt(1)}, value : {Num("10"), NaN},
                     ohlcv : {[close |-> Num("200"), high |-> Inf, volume |-> Num("0")]}]}
    \cup {[id |-> "ema20", result |-> r] :
              r \in {None, PyList(<<PyDict([timestamp |-> PyInt(1)])>>),
                     PyList(<<PyDict([value |-> Num("10")])>>)}}

\* what resp.json()["data"] may be: any one or two items, up to MaxItems core
\* items, one item of up to MaxRecs records, one of two records and a core item
Responses ==
    SeqsOf(SingleItems \cup OddItems, 0, 2)
    \cup SeqsOf(CoreItems, 0, MaxItems)
    \cup {<<m>> : m \in MultiItems}
    \cup {<<m, c>> : m \in TwoRecordItems, c \in CoreItems}

\* ------------------------------------------------------------------------
\* main
\* ------------------------------------------------------------------------
Call(fn, ok) == [fn |-> fn, ok |-> ok]

Init ==
    /\ response \in Responses
    /\ LIMIT \in 0..MaxLimit
    /\ pc = "fetch_indicators"
    /\ data = <<>>
    /\ idx = 0
    /\ bars = NoBars
    /\ payload = NoPayload
    /\ err = NoError
    /\ gist = PriorDoc
    /\ trace = <<>>

\* resp.raise_for_status() passes and resp.json()["data"] is returned
fetch_indicators ==
    /\ pc = "fetch_indicators"
    /\ data' = response
    /\ idx' = 1
    /\ pc' = "reshape"
    /\ trace' = Append(trace, Call("fetch_indicators", TRUE))
    /\ UNCHANGED <<response, LIMIT, bars, payload, err, gist>>

\* requests.post or raise_for_status raises
fetch_indicators_raises ==
    /\ pc = "fetch_indicators"
    /\ pc' = "raised"
    /\ err' = "HTTPError"
    /\ trace' = Append(trace, Call("fetch_indicators", FALSE))
    /\ UNCHANGED <<response, LIMIT, data, idx, bars, payload, gist>>

\* the exception of reshape caught and ignored
AfterReshapeRaiseCaught == "push_gist"

\* where main goes when reshape raises
AfterReshapeRaise == "raised"

\* one iteration of reshape()'s loop over data
reshape_item ==
    /\ pc = "reshape"
    /\ idx <= Len(data)
    /\ LET s == IngestItem(bars, data[idx])
       IN IF s.err # NoError
          THEN /\ pc' = AfterReshapeRaise
               /\ err' = s.err
               /\ trace' = Append(trace, Call("reshape", FALSE))
               /\ UNCHANGED <<idx, bars>>
          ELSE /\ bars' = s.bars
               /\ idx' = idx + 1
               /\ UNCHANGED <<pc, err, trace>>
    /\ UNCHANGED <<response, LIMIT, data, payload, gist>>

\* the end of reshape(): no bars raises, else the snapshot is returned
reshape_return ==
    /\ pc = "reshape"
    /\ idx > Len(data)
    /\ LET f == Finish(bars, LIMIT)
       IN IF f.err # NoError
          THEN /\ pc' = AfterReshapeRaise
               /\ err' = f.err
               /\ trace' = Append(trace, Call("reshape", FALSE))
               /\ UNCHANGED payload
          ELSE /\ pc' = "push_gist"
               /\ payload' = f.payload
               /\ trace' = Append(trace, Call("reshape", TRUE))
               /\ UNCHANGED err
    /\ UNCHANGED <<response, LIMIT, data, idx, bars, gist>>

\* the PATCH is accepted: the gist now holds the serialized payload
push_gist ==
    /\ pc = "push_gist"
    /\ gist' = json_dumps(PyDict(payload))
    /\ pc' = "print"
    /\ trace' = Append(trace, Call("push_gist", TRUE))
    /\ UNCHANGED <<response, LIMIT, data, idx, bars, payload, err>>

\* requests.patch or raise_for_status raises: the gist is not written
push_gist_raises ==
    /\ pc = "push_gist"
    /\ pc' = "raised"
    /\ err' = "HTTPError"
    /\ trace' = Append(trace, Call("push_gist", FALSE))
    /\ UNCHANGED <<response, LIMIT, data, idx, bars, payload, gist>>

\* print(...) and return
main_returns ==
    /\ pc = "print"
    /\ pc' = "done"
    /\ UNCHANGED <<response, LIMIT, data, idx, bars, payload, err, gist, trace>>

Next ==
    \/ fetch_indicators
    \/ fetch_indicators_raises
    \/ reshape_item
    \/ reshape_return
    \/ push_gist
    \/ push_gist_raises
    \/ main_returns

Spec == Init /\ [][Next]_vars

\* ------------------------------------------------------------------------
\* Properties
\* ------------------------------------------------------------------------
OhlcvSet == {OhlcvKeys[i] : i \in 1..Len(OhlcvKeys)}

\* the _ingest_bar calls made for the first n items of d
RECURSIVE CallsUpTo(_, _)
CallsUpTo(d, n) == IF n <= 0 THEN <<>> ELSE CallsUpTo(d, n - 1) \o ItemCalls(d[n]).calls

\* the calls whose effect bars holds: those of the items the loop has completed
Processed == CallsUpTo(data, idx - 1)

Published == \E i \in 1..Len(trace) : trace[i].fn = "push_gist"
ReshapeReturned == pc \in {"push_gist", "print", "done"} \/ Published
LastCandles == payload.last_candles.items
TsOf(seq) == [i \in 1..Len(seq) |-> seq[i].d.ts.n]

Perms(n) == {f \in [1..n -> 1..n] : \A i, j \in 1..n : i # j => f[i] # f[j]}
PermuteSeq(seq, f) == [i \in 1..Len(seq) |-> seq[f[i]]]

\* an item with the records of its list-shaped result in any order
ItemReorderings(item) ==
    IF item.result.py = "list"
    THEN {[item EXCEPT !.result.items = PermuteSeq(@, f)] :
              f \in Perms(Len(item.result.items))}
    ELSE {item}

\* every way to reorder the records inside the items of seq from index i on
RECURSIVE RecordOrders(_, _)
RecordOrders(seq, i) ==
    IF i > Len(seq) THEN {<<>>}
    ELSE {<<x>> \o rest : x \in ItemReorderings(seq[i]), rest \in RecordOrders(seq, i + 1)}

\* the input items in any order, the records inside each list in any order
Reorderings(d) == UNION {RecordOrders(PermuteSeq(d, f), 1) : f \in Perms(Len(d))}

\* no two contributions disagree: none on an OHLCV field of one timestamp,
\* none on the value of one (timestamp, indicatorId) pair
Agree(cs) ==
    \A i, j \in 1..Len(cs) :
        cs[i].ts = cs[j].ts =>
            /\ \A k \in OhlcvSet :
                   Get(cs[i].ohlcv, k) # None /\ Get(cs[j].ohlcv, k) # None
                       => cs[i].ohlcv[k] = cs[j].ohlcv[k]
            /\ cs[i].indicator_id = cs[j].indicator_id => cs[i].value = cs[j].value

SameBarsInAnyOrder ==
    \A r \in Reorderings(data) :
        LET out == reshape(r, LIMIT)
        IN out.err = NoError /\ out.payload.last_candles = payload.last_candles

\* C1 as claimed: reshape() of any reordering of the input returns the same
\* last_candles, conflicting OHLCV values and repeated pairs included.
C1_OrderIndependentAlways == pc = "push_gist" => SameBarsInAnyOrder

\* C1 (amended): when no two contributions for one timestamp carry different
\* non-null values of an OHLCV field and no (timestamp, indicatorId) pair comes
\* with two different values, reshape() of any reordering of the input items,
\* and of the records inside a list-shaped result, returns the same last_candles.
C1_OrderIndependentWhenAgreeing ==
    pc = "push_gist" /\ Agree(Processed) => SameBarsInAnyOrder

\* two items feed the same bar, their order matters to nothing, and the
\* reordered input is a different input
C1_Witness ==
    /\ pc = "push_gist"
    /\ Agree(Processed)
    /\ Len(data) = 2
    /\ data[1] # data[2]
    /\ data[1].id # data[2].id
    /\ Len(Processed) = 2
    /\ Processed[1].ts = Processed[2].ts
    /\ Get(Processed[1].ohlcv, "close") # None
    /\ Get(Processed[2].ohlcv, "close") = None

\* the contributions among cs that supply OHLCV field k of timestamp ts
Supplied(cs, ts, k) == SelectSeq(cs, LAMBDA c : c.ts = ts /\ Get(c.ohlcv, k) # None)

\* the contributions among cs of indicator id at timestamp ts
ValuesOf(cs, ts, id) == SelectSeq(cs, LAMBDA c : c.ts = ts /\ c.indicator_id = id)

\* C2: after any sequence of _ingest_bar calls every OHLCV field of every bar is
\* the first non-null value supplied for it at that timestamp (and is unset when
\* none was supplied), and every call has set its own indicator value.
C2_FirstWriterWins ==
    LET cs == Processed
    IN \A i \in 1..Len(cs) :
           LET ts == cs[i].ts
               id == cs[i].indicator_id
               mine == ValuesOf(cs, ts, id)
           IN /\ ts \in DOMAIN bars
              /\ id \in DOMAIN bars[ts]
              /\ bars[ts][id] = mine[Len(mine)].value
              /\ \A k \in OhlcvSet :
                     LET first == Supplied(cs, ts, k)
                     IN IF first = <<>> THEN k \notin DOMAIN bars[ts]
                        ELSE k \in DOMAIN bars[ts] /\ bars[ts][k] = first[1].ohlcv[k]

\* a second contribution with another close for a bar whose close is set
C2_Witness ==
    \E i, j \in 1..Len(Processed) :
        /\ i < j
        /\ Processed[i].ts = Processed[j].ts
        /\ Processed[i].indicator_id # Processed[j].indicator_id
        /\ Get(Processed[i].ohlcv, "close") # None
        /\ Get(Processed[j].ohlcv, "close") # None
        /\ Processed[i].ohlcv["close"] # Processed[j].ohlcv["close"]
        /\ bars[Processed[i].ts]["close"] = Processed[i].ohlcv["close"]
        /\ bars[Processed[j].ts][Processed[j].indicator_id] = Processed[j].value

IsVector(item) == item.result.py = "dict" /\ TsField(item.result.d).py = "list"

\* the arrays of a vector-shaped result are parallel: as long as the timestamps
Parallel(d) ==
    /\ "value" \in DOMAIN d
    /\ \A k \in (DOMAIN d) \ {"timestamp", "timestampMs"} :
           d[k].py = "list" /\ Len(d[k].items) = Len(TsField(d).items)

\* the list-shaped result with one dict per index of the vector-shaped d
ListForm(item) ==
    LET d == item.result.d
        columns == (DOMAIN d) \ {"timestamp", "timestampMs"}
    IN [id |-> item.id,
        result |-> PyList([i \in 1..Len(TsField(d).items) |->
                      PyDict([k \in columns |-> d[k].items[i]]
                             @@ [timestamp |-> TsField(d).items[i]])])]

\* C3 as claimed: a vector-shaped record and the list-shaped record with the same
\* timestamps, values and OHLCV fields give the same bars.
C3_ShapeEquivalence ==
    pc = "push_gist" /\ Len(data) = 1 /\ IsVector(data[1]) /\ Parallel(data[1].result.d) =>
        LET out == reshape(<<ListForm(data[1])>>, LIMIT)
        IN out.err = NoError /\ out.payload.last_candles = payload.last_candles

CallAt(i, fn, ok) == i <= Len(trace) /\ trace[i] = Call(fn, ok)

\* C4: push_gist is called at most once, and only as the third call, after
\* fetch_indicators and reshape have returned; when either raises there is no
\* publish call and the gist keeps the document it held.
C4_PublishOnlyAfterBothStages ==
    /\ Cardinality({i \in 1..Len(trace) : trace[i].fn = "push_gist"}) <= 1
    /\ \A i \in 1..Len(trace) :
           trace[i].fn = "push_gist" =>
               i = 3 /\ CallAt(1, "fetch_indicators", TRUE) /\ CallAt(2, "reshape", TRUE)
    /\ CallAt(1, "fetch_indicators", FALSE) \/ CallAt(2, "reshape", FALSE) =>
           ~Published /\ gist = PriorDoc
    /\ gist # PriorDoc => CallAt(3, "push_gist", TRUE) /\ gist = json_dumps(PyDict(payload))

\* reshape raised on fetched data: the run is over and nothing was published
C4_Witness ==
    /\ pc = "raised"
    /\ CallAt(1, "fetch_indicators", TRUE)
    /\ CallAt(2, "reshape", FALSE)
    /\ err = "KeyError"
    /\ Len(data) = 2
    /\ gist = PriorDoc

ReshapeRaised == \E i \in 1..Len(trace) : trace[i] = Call("reshape", FALSE)

\* C5 as claimed: reshape() raises only when zero bars result; a record without a
\* value or a vector with a short array is dropped like any other malformed one.
C5_MalformedNeverAborts ==
    ReshapeRaised => err = "RuntimeError" /\ idx > Len(data) /\ DOMAIN bars = {}

\* C6: when the whole input has been processed and left no bar, reshape() raises
\* the no-usable-data error and nothing is published; a snapshot that reaches
\* push_gist has at least one bar.
C6_EmptyInputFails ==
    /\ ReshapeReturned => DOMAIN bars # {} /\ LastCandles # <<>>
    /\ CallAt(1, "fetch_indicators", TRUE) /\ pc # "reshape"
       /\ idx > Len(data) /\ DOMAIN bars = {} =>
           /\ pc = "raised"
           /\ err = "RuntimeError"
           /\ ~Published
           /\ gist = PriorDoc

\* an input of records that all go unused ended the run with the error
C6_Witness ==
    /\ pc = "raised"
    /\ err = "RuntimeError"
    /\ Len(data) = 2
    /\ \E i \in 1..2 : data[i].result.py = "list" /\ data[i].result.items # <<>>
    /\ gist = PriorDoc

\* the snapshot key that flattens each field of the freshest bar
FlatKeys ==
    [price |-> "close", high |-> "high", low |-> "low", vol |-> "volume",
     ema20 |-> "ema20", ema50 |-> "ema50", ema200 |-> "ema200",
     rsi14 |-> "rsi14", vwap |-> "vwap", atr14 |-> "atr14"]

Freshest == bars[CHOOSE t \in DOMAIN bars : \A u \in DOMAIN bars : u <= t]

C8_OneBarPerTimestamp ==
    LET cs == Processed
    IN /\ DOMAIN bars = {cs[i].ts : i \in 1..Len(cs)}
       /\ ReshapeReturned =>
              LET ts == TsOf(LastCandles)
              IN /\ \A i \in 1..(Len(ts) - 1) : ts[i] < ts[i + 1]
                 /\ \A i \in 1..Len(ts) :
                        /\ ts[i] \in DOMAIN bars
                        /\ LastCandles[i].d = bars[ts[i]] @@ ("ts" :> PyInt(ts[i]))

\* a second indicator, in the other shape, contributed to the later of two bars
\* that arrived out of order
C8_Witness ==
    /\ pc = "push_gist"
    /\ Len(data) = 2
    /\ data[1].result.py # data[2].result.py
    /\ data[1].id # data[2].id
    /\ Len(Processed) = 3
    /\ Processed[1].ts > Processed[2].ts
    /\ Processed[3].ts = Processed[1].ts
    /\ Len(LastCandles) = 2

\* the n greatest elements of S, all of S when it has no more than n
Greatest(S, n) == {t \in S : Cardinality({u \in S : u > t}) < n}

\* C9 as claimed: for every LIMIT, 0 included, last_candles has at most LIMIT bars,
\* exactly those with the greatest timestamps, and the snapshot's timestamp is the
\* greatest merged timestamp.
C9_LengthCap ==
    ReshapeReturned =>
        /\ Len(LastCandles) <= LIMIT
        /\ {TsOf(LastCandles)[i] : i \in 1..Len(LastCandles)} = Greatest(DOMAIN bars, LIMIT)
        /\ \A t \in DOMAIN bars : t <= payload.timestamp.n

\* all JSON values inside a JSON value
RECURSIVE JsonParts(_)
JsonParts(j) ==
    {j} \cup UNION {JsonParts(j.items[i]) : i \in 1..Len(j.items)}
        \cup UNION {JsonParts(j.d[k]) : k \in DOMAIN j.d}

\* C10 as claimed: the published document holds no NaN and no Infinity.
C10_NoNonFinite ==
    \A j \in JsonParts(gist) : j.py \notin {"NaN", "Infinity"}

====
